---- MODULE Spec2Model ----
(***************************************************************************)
(* Model of main.py (AppsFlyer event analytics): the flow classifier       *)
(* _categorize_flow, the ratio helper _ratio_error_then_ok, the row        *)
(* predicate builder _get_flow_masks / login_stats / registration_stats,   *)
(* and the start-up path of the script (module initialisation, __main__).  *)
(*                                                                         *)
(* The event table (a pandas DataFrame produced by load) is a sequence of  *)
(* rows; a row has the user id, the event name, the event value and the    *)
(* event time.  A missing cell is NaN (user id, name, value) or NaT        *)
(* (time).  The user-id column is a string column: read_csv fills every    *)
(* missing cell with the one object np.nan, so a Python set holds at most  *)
(* one NaN.                                                                *)
(***************************************************************************)
EXTENDS Integers, Sequences, FiniteSets, TLC

VARIABLES
  df,         \* the event table
  err_mask,   \* the error predicate, one boolean per row
  ok_mask,    \* the success predicate, one boolean per row
  pc,         \* where the program is
  stats,      \* <<>> or <<the last result of _categorize_flow>>
  ratio,      \* <<>> or <<the last result of _ratio_error_then_ok>>
  flow_out,   \* <<>> or <<the outcome of the last call of the predicate builder>>
  installed,  \* the optional packages present in the environment
  argv,       \* the flags on the command line
  globals,    \* the module-level names bound so far
  columns,    \* the optional columns the CSV has
  menu        \* the last choice made in interactive_menu and what it raised

vars == <<df, err_mask, ok_mask, pc, stats, ratio, flow_out, installed, argv, globals,
          columns, menu>>

-----------------------------------------------------------------------------
(* Bounds *)
MaxRows == 2
MaxTime == 2

-----------------------------------------------------------------------------
(* Values *)
NaN == "NaN"
NaT == 0
UserIds == {"u1", "u2"}
Times == 1..MaxTime

(* A string cell is the sequence of its characters; a missing string cell is
   NaNStr (read_csv reads the empty string as missing, too). *)
NaNStr == <<"NaN">>

Row(u, n, v, t) == [uid |-> u, name |-> n, value |-> v, time |-> t]

(* Rows of the classifier's input: name and value play no part once the two
   masks are given. *)
CoreRows == {Row(u, NaNStr, NaNStr, t) : u \in UserIds \cup {NaN}, t \in Times \cup {NaT}}

NoChoice == [choice |-> "none", raised |-> "none"]

NoGlobals == [IS_STREAMLIT |-> "unbound", HAS_PLOTLY_EVENTS |-> "unbound",
              contextmanager |-> "unbound", raised |-> "none"]

-----------------------------------------------------------------------------
(* pandas helpers *)

(* df[mask]: the row labels selected by a boolean mask *)
Selected(d, mask) == {i \in DOMAIN d : mask[i]}

(* Series == u : NaN compares unequal to everything, itself included *)
EqUser(a, u) == a # NaN /\ u # NaN /\ a = u

(* Series.min(): the smallest non-null time of the rows S, NaT when none *)
MinTime(d, S) ==
  LET ts == {d[i].time : i \in S} \ {NaT}
  IN IF ts = {} THEN NaT ELSE CHOOSE t \in ts : \A s \in ts : t <= s

(* sort_values("Event Time"): ascending, NaT last.  The order of rows with
   equal times is not fixed by quicksort; the callers read only the times. *)
Before_descending(d, i, j) ==
  \/ d[i].time # NaT /\ d[j].time = NaT
  \/ d[i].time # NaT /\ d[j].time # NaT /\ d[i].time > d[j].time
  \/ d[i].time = d[j].time /\ i <= j
Before(d, i, j) ==
  \/ d[i].time # NaT /\ d[j].time = NaT
  \/ d[i].time # NaT /\ d[j].time # NaT /\ d[i].time < d[j].time
  \/ d[i].time = d[j].time /\ i <= j

RECURSIVE SortByTime(_, _)
SortByTime(d, S) ==
  IF S = {} THEN <<>>
  ELSE LET m == CHOOSE i \in S : \A j \in S : Before(d, i, j)
       IN <<m>> \o SortByTime(d, S \ {m})

(* GroupBy.first(): the first non-null time of user u in the sorted labels,
   NaT when every time of the group is null *)
RECURSIVE GroupFirst(_, _, _)
GroupFirst(d, sorted, u) ==
  IF sorted = <<>> THEN NaT
  ELSE IF d[Head(sorted)].uid = u /\ d[Head(sorted)].time # NaT
       THEN d[Head(sorted)].time
       ELSE GroupFirst(d, Tail(sorted), u)

(* groupby(user_col): one group per non-null key (dropna=True) *)
GroupKeys_mut(d, S) == {d[i].uid : i \in {j \in S : d[j].time # NaT}} \ {NaN}
GroupKeys(d, S) == {d[i].uid : i \in S} \ {NaN}

-----------------------------------------------------------------------------
(* _categorize_flow *)

(* set(df[mask][user_col]): the distinct user ids of the selected rows; a
   missing id is one more element of the set *)
users_of(d, mask) == {d[i].uid : i \in Selected(d, mask)}

both_users_of(err_users, ok_users) == err_users \cap ok_users

only_error_users_mut(err_users, ok_users) == err_users
only_error_users_of(err_users, ok_users) == err_users \ ok_users

only_success_users_of(err_users, ok_users) == ok_users \ err_users

(* if not df.empty and both_users *)
temporal_guard_mut(d, both_users) == Len(d) # 0
temporal_guard(d, both_users) == Len(d) # 0 /\ both_users # {}

(* pd.notna(first_err) and pd.notna(first_ok) and first_ok > first_err *)
error_before_ok(first_err, first_ok) ==
  first_err # NaT /\ first_ok # NaT /\ first_ok > first_err

(* the loop over both_users: isin() keeps the rows of the users of
   both_users (a missing id matches a missing id), == u selects the rows of
   user u (a missing id matches nothing) *)
error_then_success_users_of(d, em, om, both_users) ==
  LET first_times == SortByTime(d, {i \in DOMAIN d : d[i].uid \in both_users})
      ft == {first_times[k] : k \in DOMAIN first_times}
      first_err(u) == MinTime(d, {i \in ft : EqUser(d[i].uid, u) /\ em[i]})
      first_ok(u) == MinTime(d, {i \in ft : EqUser(d[i].uid, u) /\ om[i]})
  IN {u \in both_users : error_before_ok(first_err(u), first_ok(u))}

categorize_flow(d, em, om) ==
  LET err_users == users_of(d, em)
      ok_users == users_of(d, om)
      both_users == both_users_of(err_users, ok_users)
      only_error_users == only_error_users_of(err_users, ok_users)
      only_success_users == only_success_users_of(err_users, ok_users)
      pass == temporal_guard(d, both_users)
      error_then_success_users ==
        IF pass THEN error_then_success_users_of(d, em, om, both_users) ELSE {}
      total_errors == Cardinality(Selected(d, em))
      total_ok == Cardinality(Selected(d, om))
  IN [total_events |-> total_errors + total_ok,
      total_ok |-> total_ok,
      total_errors |-> total_errors,
      total_users |-> Cardinality(err_users \cup ok_users),
      unique_ok_users |-> Cardinality(ok_users),
      unique_error_users |-> Cardinality(err_users),
      both |-> Cardinality(both_users),
      only_error |-> Cardinality(only_error_users),
      only_success |-> Cardinality(only_success_users),
      only_error_ids |-> only_error_users,
      only_success_ids |-> only_success_users,
      both_ids |-> both_users,
      error_then_ok |-> Cardinality(both_users),
      error_only |-> Cardinality(only_error_users),
      clean |-> Cardinality(only_success_users),
      error_then_success |-> Cardinality(error_then_success_users),
      \* not in the returned dictionary: the local set and whether the
      \* temporal-ordering block (lines 179-193) was entered
      error_then_success_ids |-> error_then_success_users,
      temporal_pass |-> pass]

-----------------------------------------------------------------------------
(* _ratio_error_then_ok.  The float result is kept as the pair it is
   computed from; float("nan") is the record with nan = TRUE. *)

FloatNaN == [nan |-> TRUE, num |-> 0, den |-> 0, raised |-> "none"]

(* groupby(user_col)["Event Time"].first() of the selected rows, sorted *)
first_time_by_user(d, mask) ==
  LET sorted == SortByTime(d, Selected(d, mask))
  IN [u \in GroupKeys(d, Selected(d, mask)) |-> GroupFirst(d, sorted, u)]

(* (ok.loc[comunes] > err.loc[comunes]): a comparison with NaT is False *)
sucesos_of(err, ok) ==
  {u \in DOMAIN err \cap DOMAIN ok : ok[u] # NaT /\ err[u] # NaT /\ ok[u] > err[u]}

(* sucesos / len(err) if len(err) else float("nan") *)
ratio_value_unguarded(sucesos, len_err) ==
  IF len_err # 0
  THEN [nan |-> FALSE, num |-> sucesos, den |-> len_err, raised |-> "none"]
  ELSE [nan |-> FALSE, num |-> sucesos, den |-> 0, raised |-> "ZeroDivisionError"]
ratio_value(sucesos, len_err) ==
  IF len_err # 0
  THEN [nan |-> FALSE, num |-> sucesos, den |-> len_err, raised |-> "none"]
  ELSE FloatNaN

ratio_denominator_mut(err, ok) == Cardinality(DOMAIN err \cap DOMAIN ok)
ratio_denominator(err, ok) == Cardinality(DOMAIN err)

ratio_error_then_ok(d, em, om) ==
  LET err == first_time_by_user(d, em)
      ok == first_time_by_user(d, om)
      r == ratio_value(Cardinality(sucesos_of(err, ok)), ratio_denominator(err, ok))
  IN [nan |-> r.nan, num |-> r.num, den |-> r.den, raised |-> r.raised,
      \* not in the returned float: the users behind the two counts
      num_ids |-> sucesos_of(err, ok),
      den_ids |-> DOMAIN err]

-----------------------------------------------------------------------------
(* Specification of the classifier: any table of at most MaxRows rows, any
   pair of row predicates; then calls of the two operations in any order. *)

Init ==
  /\ df = <<>>
  /\ err_mask = <<>>
  /\ ok_mask = <<>>
  /\ pc = "load"
  /\ stats = <<>>
  /\ ratio = <<>>
  /\ flow_out = <<>>
  /\ installed = {}
  /\ argv = {}
  /\ globals = NoGlobals
  /\ columns = {"AppsFlyer ID"}
  /\ menu = NoChoice

(* one more row of the CSV, with its value under each predicate *)
ReadRow ==
  /\ pc = "load"
  /\ Len(df) < MaxRows
  /\ \E r \in CoreRows, e \in BOOLEAN, o \in BOOLEAN :
       /\ df' = Append(df, r)
       /\ err_mask' = Append(err_mask, e)
       /\ ok_mask' = Append(ok_mask, o)
  /\ UNCHANGED <<pc, stats, ratio, flow_out, installed, argv, globals, columns, menu>>

Loaded ==
  /\ pc = "load"
  /\ pc' = "ready"
  /\ UNCHANGED <<df, err_mask, ok_mask, stats, ratio, flow_out, installed, argv, globals, columns, menu>>

Classify ==
  /\ pc = "ready"
  /\ stats' = <<categorize_flow(df, err_mask, ok_mask)>>
  /\ UNCHANGED <<df, err_mask, ok_mask, pc, ratio, flow_out, installed, argv, globals, columns, menu>>

(* df with its rows in the order of sort_values("Event Time") *)
SortedTable(d) ==
  LET order == SortByTime(d, DOMAIN d) IN [k \in DOMAIN d |-> d[order[k]]]

TransitionRatio_inplace ==
  /\ pc = "ready"
  /\ ratio' = <<ratio_error_then_ok(df, err_mask, ok_mask)>>
  /\ df' = SortedTable(df)
  /\ UNCHANGED <<err_mask, ok_mask, pc, stats, flow_out, installed, argv, globals, columns, menu>>

TransitionRatio ==
  /\ pc = "ready"
  /\ ratio' = <<ratio_error_then_ok(df, err_mask, ok_mask)>>
  /\ UNCHANGED <<df, err_mask, ok_mask, pc, stats, flow_out, installed, argv, globals, columns, menu>>

Next == ReadRow \/ Loaded \/ Classify \/ TransitionRatio

Spec == Init /\ [][Next]_vars

-----------------------------------------------------------------------------
(* Strings.  A string is the sequence of its characters. *)

UpperToLower ==
  ("A" :> "a") @@
  ("B" :> "b") @@
  ("C" :> "c") @@
  ("D" :> "d") @@
  ("E" :> "e") @@
  ("F" :> "f") @@
  ("G" :> "g") @@
  ("H" :> "h") @@
  ("I" :> "i") @@
  ("J" :> "j") @@
  ("K" :> "k") @@
  ("L" :> "l") @@
  ("M" :> "m") @@
  ("N" :> "n") @@
  ("O" :> "o") @@
  ("P" :> "p") @@
  ("Q" :> "q") @@
  ("R" :> "r") @@
  ("S" :> "s") @@
  ("T" :> "t") @@
  ("U" :> "u") @@
  ("V" :> "v") @@
  ("W" :> "w") @@
  ("X" :> "x") @@
  ("Y" :> "y") @@
  ("Z" :> "z")

(* str.lower() *)
Lower(s) == [k \in DOMAIN s |-> IF s[k] \in DOMAIN UpperToLower THEN UpperToLower[s[k]] ELSE s[k]]

(* pat occurs in s *)
Contains(s, pat) ==
  \E k \in 0..(Len(s) - Len(pat)) : SubSeq(s, k + 1, k + Len(pat)) = pat

(* literals of the source *)
Lit_ud_error == <<"u", "d", "_", "e", "r", "r", "o", "r">>
Lit_af_login == <<"a", "f", "_", "l", "o", "g", "i", "n">>
Lit_af_complete_registration == <<"a", "f", "_", "c", "o", "m", "p", "l", "e", "t", "e", "_", "r", "e", "g", "i", "s", "t", "r", "a", "t", "i", "o", "n">>
Lit_marker_login == <<"\"", "u", "d", "_", "f", "l", "o", "w", "\"", ":", "\"", "l", "o", "g", "i", "n", "\"">>
Lit_marker_registro == <<"\"", "u", "d", "_", "f", "l", "o", "w", "\"", ":", "\"", "r", "e", "g", "i", "s", "t", "r", "o", "\"">>
Lit_registro == <<"r", "e", "g", "i", "s", "t", "r", "o">>
Lit_login == <<"l", "o", "g", "i", "n">>

(* event names and event values of the tables of SpecFlow *)
Name_UD_ERROR == <<"U", "D", "_", "E", "R", "R", "O", "R">>
Name_AF_Login == <<"A", "F", "_", "L", "o", "g", "i", "n">>
Name_nav == <<"n", "a", "v">>
Value_LOGIN == <<"{", "\"", "U", "D", "_", "F", "L", "O", "W", "\"", ":", "\"", "L", "O", "G", "I", "N", "\"", "}">>
Value_registro == <<"{", "\"", "u", "d", "_", "f", "l", "o", "w", "\"", ":", "\"", "r", "e", "g", "i", "s", "t", "r", "o", "\"", "}">>
Value_braces == <<"{", "}">>

EventNames == {Name_UD_ERROR, Name_AF_Login, Lit_af_complete_registration, Name_nav, NaNStr}
EventValues == {Value_LOGIN, Value_registro, Value_braces, NaNStr}

FlowRows == {Row("u1", n, v, 1) : n \in EventNames, v \in EventValues}

(* flow identifiers a caller may pass *)
Flow_LOGIN == <<"L", "O", "G", "I", "N">>
Flow_registration == <<"r", "e", "g", "i", "s", "t", "r", "a", "t", "i", "o", "n">>
Flow_signup == <<"s", "i", "g", "n", "u", "p">>
Flows == {Lit_login, Flow_LOGIN, Lit_registro, Flow_registration, Flow_signup}

-----------------------------------------------------------------------------
(* The row predicates (lines 292-296, 300-304, 308-312, 316-320, 431-441) *)

(* Series.str: read_csv gives a column without any string the dtype
   float64 (an empty table keeps object columns), and .str on it raises
   AttributeError *)
HasStrAccessor(col) == Len(col) = 0 \/ \E i \in DOMAIN col : col[i] # NaNStr

(* .str.lower().eq(lit): a missing cell stays missing and equals nothing *)
name_eq(cell, lit) == cell # NaNStr /\ Lower(cell) = lit

(* .str.contains(pat, case=False, na=False) *)
value_contains(cell, pat) == cell # NaNStr /\ Contains(Lower(cell), Lower(pat))

flow_masks(d, marker, ok_name) ==
  LET names == [i \in DOMAIN d |-> d[i].name]
      values == [i \in DOMAIN d |-> d[i].value]
  IN IF HasStrAccessor(names) /\ HasStrAccessor(values)
     THEN [raised |-> "none",
           err_mask |-> [i \in DOMAIN d |->
                           name_eq(names[i], Lit_ud_error) /\ value_contains(values[i], marker)],
           ok_mask |-> [i \in DOMAIN d |-> name_eq(names[i], ok_name)]]
     ELSE [raised |-> "AttributeError", err_mask |-> <<>>, ok_mask |-> <<>>]

(* flow = flow.lower() *)
normalize_flow_mut(flow) == flow
normalize_flow(flow) == Lower(flow)

(* _get_flow_masks *)
get_flow_masks(d, flow) ==
  LET f == normalize_flow(flow)
  IN IF f = Lit_registro
     THEN flow_masks(d, Lit_marker_registro, Lit_af_complete_registration)
     ELSE IF f = Lit_login
     THEN flow_masks(d, Lit_marker_login, Lit_af_login)
     ELSE [raised |-> "ValueError", err_mask |-> <<>>, ok_mask |-> <<>>]

-----------------------------------------------------------------------------
(* Specification of the predicate builder: any table of at most MaxRows
   rows of event names and values; then calls of _get_flow_masks with any
   flow identifier, login_stats and registration_stats. *)

ReadEvent ==
  /\ pc = "load"
  /\ Len(df) < MaxRows
  /\ \E r \in FlowRows : df' = Append(df, r)
  /\ UNCHANGED <<err_mask, ok_mask, pc, stats, ratio, flow_out, installed, argv, globals, columns, menu>>

GetFlowMasks ==
  /\ pc = "ready"
  /\ \E flow \in Flows :
       LET m == get_flow_masks(df, flow) IN
       /\ flow_out' = <<[op |-> "_get_flow_masks", flow |-> flow, raised |-> m.raised]>>
       /\ err_mask' = m.err_mask
       /\ ok_mask' = m.ok_mask
  /\ stats' = <<>>
  /\ UNCHANGED <<df, pc, ratio, installed, argv, globals, columns, menu>>

(* login_stats / registration_stats: the masks, then _categorize_flow *)
flow_stats(d, marker, ok_name) ==
  LET m == flow_masks(d, marker, ok_name)
  IN [raised |-> m.raised, err_mask |-> m.err_mask, ok_mask |-> m.ok_mask,
      stats |-> IF m.raised = "none"
                THEN <<categorize_flow(d, m.err_mask, m.ok_mask)>>
                ELSE <<>>]

LoginStats ==
  /\ pc = "ready"
  /\ LET r == flow_stats(df, Lit_marker_login, Lit_af_login) IN
       /\ flow_out' = <<[op |-> "login_stats", flow |-> Lit_login, raised |-> r.raised]>>
       /\ err_mask' = r.err_mask
       /\ ok_mask' = r.ok_mask
       /\ stats' = r.stats
  /\ UNCHANGED <<df, pc, ratio, installed, argv, globals, columns, menu>>

RegistrationStats ==
  /\ pc = "ready"
  /\ LET r == flow_stats(df, Lit_marker_registro, Lit_af_complete_registration) IN
       /\ flow_out' = <<[op |-> "registration_stats", flow |-> Lit_registro, raised |-> r.raised]>>
       /\ err_mask' = r.err_mask
       /\ ok_mask' = r.ok_mask
       /\ stats' = r.stats
  /\ UNCHANGED <<df, pc, ratio, installed, argv, globals, columns, menu>>

NextFlow == ReadEvent \/ Loaded \/ GetFlowMasks \/ LoginStats \/ RegistrationStats

SpecFlow == Init /\ [][NextFlow]_vars

-----------------------------------------------------------------------------
(* Start-up of the script: module initialisation (lines 18-46) and the
   __main__ block (lines 550-555), in an environment that has any subset of
   the optional packages, with any flags on the command line. *)

OptionalPackages == {"streamlit", "matplotlib", "streamlit_plotly_events", "plotly"}
Flags == {"--counts", "--daily", "--unique-users", "--login-ratio", "--reg-ratio", "--user"}

InitMain ==
  /\ df = <<>>
  /\ err_mask = <<>>
  /\ ok_mask = <<>>
  /\ pc = "line19"
  /\ stats = <<>>
  /\ ratio = <<>>
  /\ flow_out = <<>>
  /\ installed \in SUBSET OptionalPackages
  /\ argv \in SUBSET Flags
  /\ globals = NoGlobals
  /\ columns = {"AppsFlyer ID"}
  /\ menu = NoChoice

(* lines 19-25: the try block stops at the first import that fails, so
   contextmanager is imported only when streamlit and matplotlib both are *)
ImportStreamlit ==
  /\ pc = "line19"
  /\ globals' =
       IF {"streamlit", "matplotlib"} \subseteq installed
       THEN [globals EXCEPT !.IS_STREAMLIT = "True", !.contextmanager = "bound"]
       ELSE [globals EXCEPT !.IS_STREAMLIT = "False"]
  /\ pc' = "line28"
  /\ UNCHANGED <<df, err_mask, ok_mask, stats, ratio, flow_out, installed, argv, columns, menu>>

(* lines 28-33; streamlit_plotly_events itself imports streamlit *)
ImportPlotlyEvents ==
  /\ pc = "line28"
  /\ globals' =
       IF {"streamlit", "streamlit_plotly_events", "plotly"} \subseteq installed
       THEN [globals EXCEPT !.HAS_PLOTLY_EVENTS = "True"]
       ELSE [globals EXCEPT !.HAS_PLOTLY_EVENTS = "False"]
  /\ pc' = "line38"
  /\ UNCHANGED <<df, err_mask, ok_mask, stats, ratio, flow_out, installed, argv, columns, menu>>

(* line 38: the decorator expression @contextmanager is evaluated when the
   def statement runs; an unbound name raises NameError, which nothing
   catches, and the interpreter exits *)
DefineSafeModal ==
  /\ pc = "line38"
  /\ IF globals.contextmanager = "bound"
     THEN pc' = "line550" /\ globals' = globals
     ELSE pc' = "crashed" /\ globals' = [globals EXCEPT !.raised = "NameError"]
  /\ UNCHANGED <<df, err_mask, ok_mask, stats, ratio, flow_out, installed, argv, columns, menu>>

(* lines 550-556: with IS_STREAMLIT the dashboard is built and the script
   exits; otherwise the argument parser is built and parse_args() runs *)
MainGuard ==
  /\ pc = "line550"
  /\ pc' = IF globals.IS_STREAMLIT = "True" THEN "build_dashboard" ELSE "parse_args"
  /\ UNCHANGED <<df, err_mask, ok_mask, stats, ratio, flow_out, installed, argv, globals, columns, menu>>

(* lines 554-555: build_dashboard(); sys.exit(0) *)
DashboardExit ==
  /\ pc = "build_dashboard"
  /\ pc' = "exit0"
  /\ UNCHANGED <<df, err_mask, ok_mask, stats, ratio, flow_out, installed, argv, globals, columns, menu>>

NextMain == ImportStreamlit \/ ImportPlotlyEvents \/ DefineSafeModal \/ MainGuard \/ DashboardExit

SpecMain == InitMain /\ [][NextMain]_vars

-----------------------------------------------------------------------------
(* interactive_menu (lines 115-153) on a table produced by load.  load
   requires the user-id column and creates date and hour; the CSV may or may
   not have the columns AppsFlyer ID and ud_flow (the code that derived
   ud_flow, lines 90-106, is commented out). *)

OptionalColumns == {"AppsFlyer ID", "ud_flow"}

InitMenu ==
  /\ df = <<>>
  /\ err_mask = <<>>
  /\ ok_mask = <<>>
  /\ pc = "load"
  /\ stats = <<>>
  /\ ratio = <<>>
  /\ flow_out = <<>>
  /\ installed = {}
  /\ argv = {}
  /\ globals = NoGlobals
  /\ columns \in SUBSET OptionalColumns
  /\ menu = NoChoice

(* interactive_menu(data): the menu is printed and input() waits *)
EnterMenu ==
  /\ pc = "ready"
  /\ pc' = "menu"
  /\ UNCHANGED <<df, err_mask, ok_mask, stats, ratio, flow_out, installed, argv, globals,
                 columns, menu>>

(* what a choice leaves behind: an exception is caught nowhere, so it ends
   the loop; otherwise the while loop prints the menu again *)
after_choice(choice, raised) ==
  /\ menu' = [choice |-> choice, raised |-> raised]
  /\ pc' = IF raised = "none" THEN "menu" ELSE "aborted"

(* pivot_table(values=value): KeyError when the table has no such column *)
daily_pivot(cols, value) == IF value \in cols THEN "none" ELSE "KeyError"

(* user_history: [cols] selects Event Time, Event Name, ud_flow and Event
   Value; KeyError when one of them is no column of the table *)
user_history(cols) == IF "ud_flow" \in cols THEN "none" ELSE "KeyError"

(* login_error_success_ratio / registration_error_success_ratio: the masks,
   then _ratio_error_then_ok *)
error_success_ratio(d, marker, ok_name) ==
  LET m == flow_masks(d, marker, ok_name)
  IN [raised |-> m.raised,
      ratio |-> IF m.raised = "none"
                THEN <<ratio_error_then_ok(d, m.err_mask, m.ok_mask)>>
                ELSE <<>>]

(* choice "1": event_counts(df) *)
Option1 ==
  /\ pc = "menu"
  /\ after_choice("1", "none")
  /\ UNCHANGED <<df, err_mask, ok_mask, stats, ratio, flow_out, installed, argv, globals, columns>>

(* choice "2": daily_pivot(df), values = AppsFlyer ID *)
Option2 ==
  /\ pc = "menu"
  /\ after_choice("2", daily_pivot(columns \cup {"Customer User ID"}, "AppsFlyer ID"))
  /\ UNCHANGED <<df, err_mask, ok_mask, stats, ratio, flow_out, installed, argv, globals, columns>>

(* choice "3": daily_pivot(df, value="Customer User ID", agg="nunique") *)
Option3 ==
  /\ pc = "menu"
  /\ after_choice("3", daily_pivot(columns \cup {"Customer User ID"}, "Customer User ID"))
  /\ UNCHANGED <<df, err_mask, ok_mask, stats, ratio, flow_out, installed, argv, globals, columns>>

(* choice "4": login_error_success_ratio(df) *)
Option4 ==
  /\ pc = "menu"
  /\ LET r == error_success_ratio(df, Lit_marker_login, Lit_af_login) IN
       /\ after_choice("4", r.raised)
       /\ ratio' = r.ratio
  /\ UNCHANGED <<df, err_mask, ok_mask, stats, flow_out, installed, argv, globals, columns>>

(* choice "5": registration_error_success_ratio(df) *)
Option5 ==
  /\ pc = "menu"
  /\ LET r == error_success_ratio(df, Lit_marker_registro, Lit_af_complete_registration) IN
       /\ after_choice("5", r.raised)
       /\ ratio' = r.ratio
  /\ UNCHANGED <<df, err_mask, ok_mask, stats, flow_out, installed, argv, globals, columns>>

(* choice "6": user_history(df, user_id), for any id typed *)
Option6 ==
  /\ pc = "menu"
  /\ after_choice("6", user_history(columns))
  /\ UNCHANGED <<df, err_mask, ok_mask, stats, ratio, flow_out, installed, argv, globals, columns>>

(* choice "0": break *)
Option0 ==
  /\ pc = "menu"
  /\ menu' = [choice |-> "0", raised |-> "none"]
  /\ pc' = "menu_done"
  /\ UNCHANGED <<df, err_mask, ok_mask, stats, ratio, flow_out, installed, argv, globals, columns>>

(* any other input: "Opcion no valida" *)
OptionInvalid ==
  /\ pc = "menu"
  /\ after_choice("invalid", "none")
  /\ UNCHANGED <<df, err_mask, ok_mask, stats, ratio, flow_out, installed, argv, globals, columns>>

NextMenu ==
  \/ ReadEvent \/ Loaded \/ EnterMenu
  \/ Option1 \/ Option2 \/ Option3 \/ Option4 \/ Option5 \/ Option6
  \/ Option0 \/ OptionInvalid

SpecMenu == InitMenu /\ [][NextMenu]_vars

-----------------------------------------------------------------------------
(* Reference notions for the properties, stated on the table itself *)

AllIds == UserIds \cup {NaN}

(* user id u has at least one row selected by the mask *)
HasRow(u, mask) == \E i \in DOMAIN df : df[i].uid = u /\ mask[i]

(* the earliest non-null time of the rows of u selected by the mask *)
RefMin(u, mask) ==
  LET ts == {df[i].time : i \in {j \in DOMAIN df : df[j].uid = u /\ mask[j]}} \ {NaT}
  IN IF ts = {} THEN NaT ELSE CHOOSE t \in ts : \A x \in ts : t <= x

(* u has an error and a success, and its earliest success is strictly later
   than its earliest error *)
Transitioned(u) ==
  /\ HasRow(u, err_mask) /\ HasRow(u, ok_mask)
  /\ RefMin(u, err_mask) # NaT /\ RefMin(u, ok_mask) # NaT
  /\ RefMin(u, ok_mask) > RefMin(u, err_mask)

-----------------------------------------------------------------------------
(* C1: only_error_ids, only_success_ids and both_ids are pairwise disjoint,
   their union is the set of user ids with an error row or a success row,
   and total_users = only_error + only_success + both. *)
C1_Partition ==
  stats # <<>> =>
    LET s == stats[1] IN
    /\ s.only_error_ids \cap s.only_success_ids = {}
    /\ s.only_error_ids \cap s.both_ids = {}
    /\ s.only_success_ids \cap s.both_ids = {}
    /\ s.only_error_ids \cup s.only_success_ids \cup s.both_ids
         = {u \in AllIds : HasRow(u, err_mask) \/ HasRow(u, ok_mask)}
    /\ s.only_error = Cardinality(s.only_error_ids)
    /\ s.only_success = Cardinality(s.only_success_ids)
    /\ s.both = Cardinality(s.both_ids)
    /\ s.total_users = s.only_error + s.only_success + s.both

C1_Witness ==
  /\ stats # <<>>
  /\ stats[1].both = 1
  /\ stats[1].only_error = 1
  /\ stats[1].total_users = 2

(* C2: a user is counted in error_then_success iff it is in both, both
   minima exist and the success minimum is strictly greater than the error
   minimum; error_then_success <= both. *)
C2_ErrorThenSuccessIff ==
  stats # <<>> =>
    LET s == stats[1] IN
    /\ \A u \in AllIds :
         u \in s.error_then_success_ids <=> (u \in s.both_ids /\ Transitioned(u))
    /\ s.error_then_success = Cardinality(s.error_then_success_ids)
    /\ s.error_then_success <= s.both

(* C3 as stated: the denominator is the number of all users with at least
   one error row, the numerator the number of users whose first success is
   strictly later than their first error. *)
C3_Original ==
  (ratio # <<>> /\ \E u \in AllIds : HasRow(u, err_mask)) =>
    LET r == ratio[1] IN
    /\ ~r.nan
    /\ r.den = Cardinality({u \in AllIds : HasRow(u, err_mask)})
    /\ r.num = Cardinality({u \in AllIds : Transitioned(u)})

(* C3 amended: the same, counting the users with a non-null id; a user with
   an error row and no success row is in the denominator and not in the
   numerator. *)
C3_RatioNonNullUsers ==
  ratio # <<>> =>
    LET r == ratio[1]
        errs == {u \in UserIds : HasRow(u, err_mask)}
    IN IF errs = {} THEN r.nan
       ELSE /\ ~r.nan
            /\ r.den = Cardinality(errs)
            /\ r.num = Cardinality({u \in UserIds : Transitioned(u)})
            /\ r.num <= r.den
            /\ \A u \in errs : ~HasRow(u, ok_mask) => ~Transitioned(u)

C3_Witness ==
  /\ ratio # <<>>
  /\ ratio[1].den = 2
  /\ \E u \in UserIds : HasRow(u, err_mask) /\ ~HasRow(u, ok_mask)
  /\ \E u \in UserIds : HasRow(u, err_mask) /\ HasRow(u, ok_mask)

(* C4: when no row matches the error predicate (the empty table included),
   the ratio is the not-a-number sentinel and nothing is raised. *)
C4_NaNWhenNoErrorUser ==
  (ratio # <<>> /\ \A u \in AllIds : ~HasRow(u, err_mask)) =>
    /\ ratio[1].nan
    /\ ratio[1].raised = "none"

C4_Witness ==
  /\ ratio # <<>>
  /\ \A u \in AllIds : ~HasRow(u, err_mask)
  /\ \E u \in UserIds : HasRow(u, ok_mask)

(* C6 as stated: a user whose error rows all have a null Event Time is not
   counted in the denominator. *)
C6_Original ==
  ratio # <<>> =>
    \A u \in UserIds :
      (HasRow(u, err_mask) /\ RefMin(u, err_mask) = NaT) => u \notin ratio[1].den_ids

(* C6 amended: a user (non-null id) whose error rows all have a null Event
   Time is counted in the denominator and never in the numerator; a user
   whose success rows all have a null Event Time is never counted in the
   numerator; nothing is raised. *)
C6_NullTimesCounted ==
  ratio # <<>> =>
    LET r == ratio[1] IN
    /\ r.raised = "none"
    /\ \A u \in UserIds :
         (HasRow(u, err_mask) /\ RefMin(u, err_mask) = NaT) =>
            /\ ~r.nan
            /\ u \in r.den_ids
            /\ u \notin r.num_ids
            /\ r.den = Cardinality(r.den_ids)
            /\ r.num = Cardinality(r.num_ids)
    /\ \A u \in UserIds :
         (HasRow(u, ok_mask) /\ RefMin(u, ok_mask) = NaT) => u \notin r.num_ids

C6_Witness ==
  /\ ratio # <<>>
  /\ \E u \in UserIds :
       /\ HasRow(u, err_mask) /\ RefMin(u, err_mask) = NaT
       /\ HasRow(u, ok_mask) /\ RefMin(u, ok_mask) # NaT
       /\ ratio[1].den = 1 /\ ratio[1].num = 0

(* C8: on the empty table every count is 0 and every id set is empty; and
   whenever both is empty the temporal-ordering pass is skipped and
   error_then_success is 0. *)
C8_EmptyTableAndEmptyBoth ==
  stats # <<>> =>
    LET s == stats[1] IN
    /\ df = <<>> =>
         /\ s.total_errors = 0 /\ s.total_ok = 0 /\ s.total_events = 0
         /\ s.total_users = 0 /\ s.only_error = 0 /\ s.only_success = 0
         /\ s.both = 0 /\ s.error_then_success = 0
         /\ s.only_error_ids = {} /\ s.only_success_ids = {} /\ s.both_ids = {}
    /\ s.both_ids = {} => (~s.temporal_pass /\ s.error_then_success = 0)

C8_Witness ==
  /\ stats # <<>>
  /\ df = <<>>
  /\ stats[1].total_events = 0
  /\ ~stats[1].temporal_pass

(* C9: neither operation changes the table or the predicates, and a second
   call returns what the first call returned. *)
C9_Pure ==
  [][/\ pc = "ready" => (df' = df /\ err_mask' = err_mask /\ ok_mask' = ok_mask)
     /\ (stats # <<>> /\ stats' # <<>>) => stats' = stats
     /\ (ratio # <<>> /\ ratio' # <<>>) => ratio' = ratio]_vars

C9_Witness ==
  /\ stats # <<>>
  /\ ratio # <<>>
  /\ Len(df) = 2
  /\ df[1].time # NaT /\ df[2].time # NaT /\ df[2].time < df[1].time

-----------------------------------------------------------------------------
(* C5 as stated: the flow identifiers recognised are exactly login and
   registration; any other identifier fails with the unsupported-flow
   error. *)
C5_Original ==
  (flow_out # <<>> /\ flow_out[1].op = "_get_flow_masks") =>
    (flow_out[1].raised = "ValueError"
       <=> flow_out[1].flow \notin {Lit_login, Flow_registration})

(* C5 amended: the identifiers recognised are exactly those whose lower-case
   form is login or registro; any other identifier (registration among
   them) fails with ValueError, and a returned pair has one boolean per
   row of the table. *)
C5_RecognisedFlows ==
  (flow_out # <<>> /\ flow_out[1].op = "_get_flow_masks") =>
    /\ flow_out[1].raised = "ValueError"
         <=> Lower(flow_out[1].flow) \notin {Lit_login, Lit_registro}
    /\ flow_out[1].raised = "none" =>
         (Len(err_mask) = Len(df) /\ Len(ok_mask) = Len(df))

C5_Witness ==
  /\ flow_out # <<>>
  /\ flow_out[1].op = "_get_flow_masks"
  /\ flow_out[1].flow = Flow_registration
  /\ flow_out[1].raised = "ValueError"
  /\ Len(df) = 1

(* C7: for both flows, building the predicates never raises; the two
   predicates have one entry per row, and a row whose Event Name or Event
   Value is missing is false under both. *)
C7_NullRowsFalseNoRaise ==
  (flow_out # <<>> /\ Lower(flow_out[1].flow) \in {Lit_login, Lit_registro}) =>
    /\ flow_out[1].raised = "none"
    /\ Len(err_mask) = Len(df)
    /\ Len(ok_mask) = Len(df)
    /\ \A i \in DOMAIN df :
         (df[i].name = NaNStr \/ df[i].value = NaNStr) => (~err_mask[i] /\ ~ok_mask[i])

-----------------------------------------------------------------------------
(* C10: when streamlit is not installed, module initialisation completes
   with IS_STREAMLIT = False and the script goes on to argument parsing: it
   neither fails during start-up nor enters the dashboard. *)
C10_CliReachedWithoutStreamlit ==
  "streamlit" \notin installed =>
    /\ pc \notin {"crashed", "build_dashboard", "exit0"}
    /\ globals.raised = "none"
    /\ pc \in {"line550", "parse_args"} => globals.IS_STREAMLIT = "False"

-----------------------------------------------------------------------------
(* C11: in the returned dictionary error_then_ok is the number of users who
   had an error and then a success, error_only the number of users who only
   had errors, and clean the number of users of the flow who never had an
   error. *)
C11_LegacyKeysAsDocumented ==
  stats # <<>> =>
    LET s == stats[1] IN
    /\ s.error_then_ok = Cardinality({u \in AllIds : Transitioned(u)})
    /\ s.error_only = Cardinality({u \in AllIds :
                          HasRow(u, err_mask) /\ ~HasRow(u, ok_mask)})
    /\ s.clean = Cardinality({u \in AllIds :
                          HasRow(u, ok_mask) /\ ~HasRow(u, err_mask)})

(* C13: on a table without missing user ids, the numerator of the ratio is
   classify's error_then_success and its denominator is classify's
   unique_error_users; the ratio is NaN exactly when unique_error_users is
   0. *)
C13_EnginesAgree ==
  (stats # <<>> /\ ratio # <<>> /\ \A i \in DOMAIN df : df[i].uid # NaN) =>
    LET s == stats[1]
        r == ratio[1]
    IN IF s.unique_error_users = 0 THEN r.nan
       ELSE /\ ~r.nan
            /\ r.num = s.error_then_success
            /\ r.den = s.unique_error_users

C13_Witness ==
  /\ stats # <<>>
  /\ ratio # <<>>
  /\ Len(df) = 2
  /\ df[1].uid = df[2].uid /\ df[1].uid # NaN
  /\ err_mask[1] /\ err_mask[2] /\ ok_mask[2]
  /\ df[1].time # NaT /\ df[2].time # NaT /\ df[1].time < df[2].time
  /\ ratio[1].num = 1 /\ ratio[1].den = 1
  /\ stats[1].error_then_success = 1

-----------------------------------------------------------------------------
(* C12: the menu repeats until "0" is chosen: after any other choice,
   option 6 included, the menu is shown again, and it ends exactly when "0"
   is entered.  Stated for the exports that have the AppsFlyer ID column,
   which option 2 reads. *)
C12_MenuRepeatsUntilZero ==
  "AppsFlyer ID" \in columns =>
    /\ menu.choice \notin {"none", "0"} => pc = "menu"
    /\ pc = "menu_done" <=> menu.choice = "0"
    /\ menu.raised = "none"

====
